---- MODULE Spec2Model ----
(***************************************************************************)
(* The playback engine of the tablature editor (class AudioEngine): the    *)
(* lookahead scheduler, its timers, the tie (connection) preprocessing of  *)
(* setScore and the rendering of a column.                                 *)
(*                                                                         *)
(* Time is counted in units of 25 ms, the engine's timer period: the       *)
(* lookahead of 25 ms is 1 unit, the schedule-ahead window of 0.1 s is 4   *)
(* units, the start offset of 0.05 s is 2 units, and a beat of 60/bpm      *)
(* seconds is 2400/bpm units.  Column and string indices are 0-based as    *)
(* in the source; the cell of string s in column c is columns[c+1][s+1].   *)
(* A Note is a number or the string 'x': the muted note 'x' is encoded by  *)
(* the value Muted, the only Note that is not a number.                    *)
(***************************************************************************)
EXTENDS Integers, Sequences, FiniteSets, TLC

VARIABLES
    audioContext,      \* "null" | "open"
    nextNoteTime,
    timerID,           \* 0 is null, otherwise the id of a scheduler timeout
    isPlaying,
    currentColumn,
    columns,
    durations,
    bpm,
    frequencies,       \* the open frequency of each string, in Hz
    lastNoteIndex,
    connections,       \* set of <<col, str>>
    connectionMap,     \* function: <<col, str>> of a link's start -> target column
    connectionTargets, \* set of <<col, str>>
    now,               \* audioContext.currentTime and the wall clock
    pendingStarts,     \* start() calls waiting for initialize() to resolve, oldest first
    timeouts,          \* pending setTimeout callbacks, in the order they were set
    starts,            \* history: number of start() calls that passed the isPlaying guard
    armed,             \* history: start() was called after the last stop()
    dirty,             \* history: the caller called stop(), or setScore after a start()
    run,               \* history of a single playback (one start, not dirty): where and when
                       \* it began and how many columns it has rendered; NoRun otherwise
    snapshot,          \* history: the arguments of the last setScore call
    tab,               \* the editor's columns, which handleOptimize passes to optimizeFingering
    instrumentType,    \* the editor's instrument
    result,            \* what the last call of optimizeFingering did
    passes,            \* history: number of calls of handleOptimize
    out                \* what the last handler did: the columns it rendered, its playTone
                       \* calls (notes), its onStop calls (stops) and its onTick calls (ticks)

vars == <<audioContext, nextNoteTime, timerID, isPlaying, currentColumn, columns,
          durations, bpm, frequencies, lastNoteIndex, connections, connectionMap,
          connectionTargets, now, pendingStarts, timeouts, starts, armed,
          dirty, run, snapshot, tab, instrumentType, result, passes, out>>

score == <<columns, durations, bpm, frequencies, lastNoteIndex, connections, connectionMap,
           connectionTargets, snapshot>>
playState == <<nextNoteTime, timerID, isPlaying, currentColumn>>
luthier == <<tab, instrumentType, result, passes>>

-----------------------------------------------------------------------------
(* Bounds of the model *)

MaxTime == 4
MaxStarts == 2
MaxCols == 3

(* Program constants, in units of 25 ms *)
scheduleAheadTime == 4
lookahead == 1
StartOffset == 2

Empty == -1
Muted == 100

\* the inputs: two strings, an empty, a fretted and a muted cell, every duration symbol,
\* and two tempi whose beat is a whole number of units
Strings == {0, 1}
NoteVals == {Empty, 3, Muted}
DurVals == {"1", "2", "4", "8", "16"}
BpmVals == {300, 600}
StartIndices == -1 .. MaxCols

Min(a, b) == IF a < b THEN a ELSE b
Max(a, b) == IF a > b THEN a ELSE b
SetMin(S) == CHOOSE x \in S : \A y \in S : x <= y
SetMax(S) == CHOOSE x \in S : \A y \in S : x >= y

-----------------------------------------------------------------------------
(* setScore: the preprocessing of the connections and lastNoteIndex *)

Cell(cols, c, s) == cols[c + 1][s + 1]

NextNoteIndexAdjacent(cols, startCol, str) ==
    IF startCol + 1 < Len(cols) /\ Cell(cols, startCol + 1, str) # Empty
    THEN startCol + 1
    ELSE -1

\* the search goes round to the columns before startCol when it finds no note after it
NextNoteIndexWrapping(cols, startCol, str) ==
    LET later == {i \in (startCol + 1) .. (Len(cols) - 1) : Cell(cols, i, str) # Empty}
        before == {i \in 0 .. (startCol - 1) : Cell(cols, i, str) # Empty}
    IN  IF later # {} THEN SetMin(later)
        ELSE IF before # {} THEN SetMin(before)
        ELSE -1

\* the next note on string str after startCol, -1 when there is none
NextNoteIndex(cols, startCol, str) ==
    LET later == {i \in (startCol + 1) .. (Len(cols) - 1) : Cell(cols, i, str) # Empty}
    IN  IF later = {} THEN -1 ELSE SetMin(later)

\* the connections that produce a link: the start column exists and a next note is found
LinkedConnections(cols, conns) ==
    {c \in conns : c[1] >= 0 /\ c[1] < Len(cols) /\ NextNoteIndex(cols, c[1], c[2]) # -1}

ConnectionMapOf(cols, conns) ==
    [k \in LinkedConnections(cols, conns) |-> NextNoteIndex(cols, k[1], k[2])]

ConnectionTargetsOf(cols, conns) ==
    {<<NextNoteIndex(cols, k[1], k[2]), k[2]>> : k \in LinkedConnections(cols, conns)}

LastNoteIndexOf(cols) ==
    LET used == {i \in 0 .. (Len(cols) - 1) : \E s \in Strings : Cell(cols, i, s) # Empty}
    IN  IF used = {} THEN -1 ELSE SetMax(used)

-----------------------------------------------------------------------------
(* Durations *)

SecondsPerBeat == 2400 \div bpm

getDurationInSeconds(duration) ==
    CASE duration = "1"  -> 4 * SecondsPerBeat
      [] duration = "2"  -> 2 * SecondsPerBeat
      [] duration = "4"  -> SecondsPerBeat
      [] duration = "8"  -> SecondsPerBeat \div 2
      [] duration = "16" -> SecondsPerBeat \div 4
      [] OTHER           -> SecondsPerBeat \div 4

\* this.durations[col] || '8'
DurationAt(col) ==
    IF col + 1 \in DOMAIN durations THEN durations[col + 1] ELSE "8"

isChainTarget(col, str) == <<col, str>> \in connectionTargets

RECURSIVE ChainWalk(_, _, _, _)
ChainWalk(currentCol, str, visited, total) ==
    IF currentCol \in visited THEN total
    ELSE LET sum == total + getDurationInSeconds(DurationAt(currentCol))
         IN  IF <<currentCol, str>> \in DOMAIN connectionMap
             THEN ChainWalk(connectionMap[<<currentCol, str>>], str,
                            visited \cup {currentCol}, sum)
             ELSE sum

RECURSIVE ChainColumns(_, _, _)
\* the columns the loop of getChainDurationSeconds adds to visited, in order, from
\* currentCol on
ChainColumns(currentCol, str, visited) ==
    IF \E k \in DOMAIN visited : visited[k] = currentCol THEN visited
    ELSE IF <<currentCol, str>> \in DOMAIN connectionMap
    THEN ChainColumns(connectionMap[<<currentCol, str>>], str, Append(visited, currentCol))
    ELSE Append(visited, currentCol)

OwnDurationSeconds(startCol, str) == getDurationInSeconds(DurationAt(startCol))

getChainDurationSeconds(startCol, str) == ChainWalk(startCol, str, {}, 0)

-----------------------------------------------------------------------------
(* Rendering a column *)

IsNumber(fret) == fret # Muted

\* this.frequencies[stringIndex] is truthy
HasFrequency(stringIndex) ==
    stringIndex + 1 \in DOMAIN frequencies /\ frequencies[stringIndex + 1] # 0

\* the cell triggers an attack: a number other than -1, on a string that has a frequency,
\* that is not the target of a link
Attacks(colIndex, stringIndex) ==
    /\ IsNumber(Cell(columns, colIndex, stringIndex))
    /\ Cell(columns, colIndex, stringIndex) # Empty
    /\ HasFrequency(stringIndex)
    /\ ~isChainTarget(colIndex, stringIndex)

scheduleNoteStrummed(colIndex, time) ==
    IF colIndex + 1 \notin DOMAIN columns THEN {}
    ELSE {[col |-> colIndex, str |-> s, fret |-> Cell(columns, colIndex, s),
           base |-> frequencies[s + 1], time |-> time + s, dur |-> getChainDurationSeconds(colIndex, s)] :
              s \in {x \in Strings : Attacks(colIndex, x)}}

\* the playTone calls of scheduleNote(colIndex, time)
scheduleNote(colIndex, time) ==
    IF colIndex + 1 \notin DOMAIN columns THEN {}
    ELSE {[col |-> colIndex, str |-> s, fret |-> Cell(columns, colIndex, s),
           base |-> frequencies[s + 1], time |-> time, dur |-> getChainDurationSeconds(colIndex, s)] :
              s \in {x \in Strings : Attacks(colIndex, x)}}

TickTimeoutNextColumn(colIndex, time) ==
    [kind |-> "tick", id |-> 0, col |-> colIndex + 1, due |-> Max(now, time), stale |-> FALSE]

\* the cursor tick scheduleNote(colIndex, time) sets
TickTimeout(colIndex, time) ==
    [kind |-> "tick", id |-> 0, col |-> colIndex, due |-> Max(now, time), stale |-> FALSE]

-----------------------------------------------------------------------------
(* The scheduler *)

AutoStopUnguarded(col) == col > lastNoteIndex

AutoStopLate(col) == lastNoteIndex # -1 /\ col > lastNoteIndex + 1

AutoStopPastEnd(col) == lastNoteIndex # -1 /\ col > Len(columns) - 1

AutoStopDue(col) == lastNoteIndex # -1 /\ col > lastNoteIndex

NextNoteTimeByDuration(time, col) == time + getDurationInSeconds(DurationAt(col))

NextNoteTimeAfter(time, col) == time + SecondsPerBeat \div 4

NextColumnAfter(col) == IF col + 1 >= Len(columns) THEN 0 ELSE col + 1

RECURSIVE schedulerLoopInclusive(_, _, _)
schedulerLoopInclusive(time, col, rendered) ==
    IF time <= now + scheduleAheadTime
    THEN IF AutoStopDue(col)
         THEN [time |-> time, col |-> col, rendered |-> rendered, stopped |-> TRUE]
         ELSE schedulerLoopInclusive(NextNoteTimeAfter(time, col), NextColumnAfter(col),
                                     Append(rendered, [col |-> col, time |-> time]))
    ELSE [time |-> time, col |-> col, rendered |-> rendered, stopped |-> FALSE]

\* the while loop of scheduler(): the columns rendered, and where it leaves the engine
RECURSIVE schedulerLoop(_, _, _)
schedulerLoop(time, col, rendered) ==
    IF time < now + scheduleAheadTime
    THEN IF AutoStopDue(col)
         THEN [time |-> time, col |-> col, rendered |-> rendered, stopped |-> TRUE]
         ELSE schedulerLoop(NextNoteTimeAfter(time, col), NextColumnAfter(col),
                            Append(rendered, [col |-> col, time |-> time]))
    ELSE [time |-> time, col |-> col, rendered |-> rendered, stopped |-> FALSE]

SchedIds(q) == {q[k].id : k \in {j \in DOMAIN q : q[j].kind = "sched"}}

\* the id window.setTimeout returns: one no pending timeout and no stored timerID has
FreshId(q, tid) == SetMin((1 .. (Len(q) + 2)) \ (SchedIds(q) \cup {tid}))

RemoveAt(q, i) == [k \in 1 .. (Len(q) - 1) |-> IF k < i THEN q[k] ELSE q[k + 1]]

RECURSIVE Without(_, _)
Without(q, tid) ==
    IF q = <<>> THEN <<>>
    ELSE IF Head(q).kind = "sched" /\ Head(q).id = tid THEN Tail(q)
    ELSE <<Head(q)>> \o Without(Tail(q), tid)

\* window.clearTimeout(timerID); the cursor ticks left pending belong to a stopped playback
ClearTimeout(q, tid) ==
    LET rest == IF tid = 0 THEN q ELSE Without(q, tid)
    IN  [k \in DOMAIN rest |->
            IF rest[k].kind = "tick" THEN [rest[k] EXCEPT !.stale = TRUE] ELSE rest[k]]

\* scheduler() run with the engine at (playing, col, time), the timeouts q and timerID tid
scheduler(playing, col, time, q, tid) ==
    LET r == schedulerLoop(time, col, <<>>)
        ticks == [k \in DOMAIN r.rendered |->
                     TickTimeout(r.rendered[k].col, r.rendered[k].time)]
        notes == UNION {scheduleNote(r.rendered[k].col, r.rendered[k].time) :
                           k \in DOMAIN r.rendered}
        q1 == q \o ticks
        id == FreshId(q1, tid)
        base == [nextNoteTime |-> r.time, currentColumn |-> r.col,
                 rendered |-> r.rendered, notes |-> notes]
    IN  IF r.stopped
        THEN base @@ [isPlaying |-> FALSE, timerID |-> 0,
                      timeouts |-> ClearTimeout(q1, tid), stops |-> 1]
        ELSE IF playing
        THEN base @@ [isPlaying |-> TRUE, timerID |-> id,
                      timeouts |-> Append(q1, [kind |-> "sched", id |-> id, col |-> -1,
                                               due |-> now + lookahead, stale |-> FALSE]),
                      stops |-> 0]
        ELSE base @@ [isPlaying |-> FALSE, timerID |-> tid, timeouts |-> q1, stops |-> 0]

-----------------------------------------------------------------------------
(* The inputs of setScore *)

ColumnsOver(colVals) == UNION {[1 .. n -> colVals] : n \in 0 .. MaxCols}

\* the open frequencies of the two highest strings of the guitar and of the bass
GuitarTuning == <<330, 247>>
BassTuning == <<98, 73>>

\* the tuning the editor hands over with the columns c
TuningOf(c) == IF Len(c) = 1 THEN BassTuning ELSE GuitarTuning

\* the scores the editor hands over while the engine runs
PlayScores ==
    {[columns |-> c, durations |-> [k \in DOMAIN c |-> "8"], bpm |-> b,
      frequencies |-> TuningOf(c), connections |-> {}] :
        c \in {<<>>, << <<3, Empty>> >>, << <<Empty, 3>>, <<Empty, Empty>> >>},
        b \in BpmVals}

\* the scores of an edit during a playback: the same two notes tied and untied, at another
\* tempo, with other durations and on another tuning
TiedScores ==
    {[columns |-> << <<3, Empty>>, <<3, Empty>>, <<Empty, Empty>> >>,
      durations |-> <<"4", "8", "8">>, bpm |-> 600, frequencies |-> GuitarTuning,
      connections |-> {<<0, 0>>}],
     [columns |-> << <<3, Empty>>, <<3, Empty>>, <<Empty, Empty>> >>,
      durations |-> <<"4", "8", "8">>, bpm |-> 300, frequencies |-> BassTuning,
      connections |-> {}],
     [columns |-> << <<3, Empty>>, <<Empty, Empty>>, <<7, Empty>> >>,
      durations |-> <<"8", "16", "4">>, bpm |-> 600, frequencies |-> BassTuning,
      connections |-> {<<0, 0>>}]}
EditScores == PlayScores \cup TiedScores

\* the scores of a single playback
ColumnVals == {<<Empty, Empty>>, <<3, Empty>>, <<Muted, 3>>}
DurCycle == <<"4", "8", "4", "16">>
DurationsOver(c) ==
    {[k \in DOMAIN c |-> d] : d \in {"16", "4", "1"}} \cup {[k \in DOMAIN c |-> DurCycle[k]]}
MaxConnections == 2
ConnectionsOver(c) ==
    {x \in SUBSET {<<k, 0>> : k \in 0 .. (MaxCols - 1)} : Cardinality(x) <= MaxConnections}
Scores ==
    UNION {{[columns |-> c, durations |-> d, bpm |-> b, frequencies |-> GuitarTuning,
             connections |-> x] :
               d \in DurationsOver(c), b \in BpmVals, x \in ConnectionsOver(c)} :
           c \in ColumnsOver(ColumnVals)}

\* scores without ties whose cells hold two notes at once and numbers that are no fret,
\* with a tuning for both strings or for the first only
CellColumnVals == {<<Empty, Empty>>, <<3, 7>>, <<-2, 25>>}
CellScores ==
    {[columns |-> c, durations |-> [k \in DOMAIN c |-> "8"], bpm |-> b, frequencies |-> f,
      connections |-> {}] :
        c \in ColumnsOver(CellColumnVals), b \in BpmVals,
        f \in {GuitarTuning, SubSeq(GuitarTuning, 1, 1)}}

-----------------------------------------------------------------------------
(* The handlers *)

NoRun == [base |-> -1, start |-> 0, count |-> 0]

Idle ==
    [op |-> "idle", rendered |-> <<>>, notes |-> {}, stops |-> 0, ticks |-> <<>>,
     staleTick |-> FALSE, failed |-> FALSE, reported |-> FALSE, wasPlaying |-> FALSE,
     wasArmed |-> FALSE, call |-> <<>>]

Did(op) == [Idle EXCEPT !.op = op, !.wasPlaying = isPlaying, !.wasArmed = armed]

\* no call of optimizeFingering yet
NotCalled == [called |-> FALSE, raised |-> FALSE, argument |-> <<>>, columns |-> <<>>,
              input |-> <<>>]

Fresh ==
    /\ audioContext = "null"
    /\ nextNoteTime = 0
    /\ timerID = 0
    /\ isPlaying = FALSE
    /\ currentColumn = 0
    /\ now = 0
    /\ pendingStarts = <<>>
    /\ timeouts = <<>>
    /\ starts = 0
    /\ armed = FALSE
    /\ dirty = FALSE
    /\ run = NoRun
    /\ out = Idle
    /\ passes = 0
    /\ result = NotCalled

\* the editor with no column
NoTab == tab = <<>> /\ instrumentType = "guitar"

\* the engine as constructed
Constructed ==
    /\ Fresh
    /\ columns = <<>>
    /\ durations = <<>>
    /\ bpm = 120
    /\ frequencies = <<>>
    /\ snapshot = [columns |-> <<>>, durations |-> <<>>, bpm |-> 120, frequencies |-> <<>>,
                   connections |-> {}]
    /\ lastNoteIndex = -1
    /\ connections = {}
    /\ connectionMap = ConnectionMapOf(<<>>, {})
    /\ connectionTargets = {}

Init == Constructed /\ NoTab

\* the engine as constructed, after setScore(x)
\* setScore that lets the tempo stand
setScoreKeepTempo(x) ==
    /\ columns' = x.columns
    /\ durations' = x.durations
    /\ bpm' = bpm
    /\ frequencies' = x.frequencies
    /\ snapshot' = x
    /\ connections' = x.connections
    /\ connectionMap' = ConnectionMapOf(x.columns, x.connections)
    /\ connectionTargets' = ConnectionTargetsOf(x.columns, x.connections)
    /\ lastNoteIndex' = LastNoteIndexOf(x.columns)

ScoreIs(x) ==
    /\ columns = x.columns
    /\ durations = x.durations
    /\ bpm = x.bpm
    /\ frequencies = x.frequencies
    /\ snapshot = x
    /\ connections = x.connections
    /\ connectionMap = ConnectionMapOf(x.columns, x.connections)
    /\ connectionTargets = ConnectionTargetsOf(x.columns, x.connections)
    /\ lastNoteIndex = LastNoteIndexOf(x.columns)

InitPlay == Fresh /\ NoTab /\ \E x \in Scores \cup CellScores : ScoreIs(x)

\* setScore that does not clear the links and the targets of the score before
setScoreKeepLinks(x) ==
    /\ columns' = x.columns
    /\ durations' = x.durations
    /\ bpm' = x.bpm
    /\ frequencies' = x.frequencies
    /\ snapshot' = x
    /\ connections' = x.connections
    /\ connectionMap' = ConnectionMapOf(x.columns, x.connections) @@ connectionMap
    /\ connectionTargets' = ConnectionTargetsOf(x.columns, x.connections) \cup connectionTargets
    /\ lastNoteIndex' = LastNoteIndexOf(x.columns)

setScore(x) ==
    /\ columns' = x.columns
    /\ durations' = x.durations
    /\ bpm' = x.bpm
    /\ frequencies' = x.frequencies
    /\ snapshot' = x
    /\ connections' = x.connections
    /\ connectionMap' = ConnectionMapOf(x.columns, x.connections)
    /\ connectionTargets' = ConnectionTargetsOf(x.columns, x.connections)
    /\ lastNoteIndex' = LastNoteIndexOf(x.columns)

\* the editor hands over a score of the set S
SetScoreFrom(S) ==
    \E x \in S :
        /\ setScore(x)
        /\ dirty' = (dirty \/ starts > 0)
        /\ run' = IF starts > 0 THEN NoRun ELSE run
        /\ out' = Idle
        /\ UNCHANGED <<audioContext, playState, now, pendingStarts, timeouts, starts, armed,
                       luthier>>

SetScore == SetScoreFrom(PlayScores)

\* start(startIndex) without the test of isPlaying
StartUnguarded ==
    \E startIndex \in StartIndices, deviceOk \in BOOLEAN :
        /\ starts < MaxStarts
        /\ audioContext = "null" \/ deviceOk
        /\ armed' = TRUE
        /\ IF deviceOk
           THEN /\ audioContext' = "open"
                /\ pendingStarts' = Append(pendingStarts, startIndex)
                /\ starts' = starts + 1
                /\ run' = NoRun
                /\ out' = IF isPlaying THEN Did("start") ELSE Idle
           ELSE /\ out' = [Did("start") EXCEPT !.failed = TRUE, !.reported = FALSE]
                /\ UNCHANGED <<audioContext, pendingStarts, starts, run>>
        /\ UNCHANGED <<score, playState, now, timeouts, dirty, luthier>>

\* start(startIndex) up to the promise of initialize(); deviceOk: an AudioContext can be made
Start ==
    \E startIndex \in StartIndices, deviceOk \in BOOLEAN :
        /\ starts < MaxStarts
        /\ audioContext = "null" \/ deviceOk
        /\ armed' = TRUE
        /\ IF isPlaying
           THEN \* the call returns at once
                /\ out' = Did("start")
                /\ UNCHANGED <<audioContext, pendingStarts, starts, run>>
           ELSE IF deviceOk
           THEN /\ audioContext' = "open"
                /\ pendingStarts' = Append(pendingStarts, startIndex)
                /\ starts' = starts + 1
                /\ run' = NoRun
                /\ out' = Idle
           ELSE \* initialize() rejects; start() has dropped the promise and returns
                /\ out' = [Did("start") EXCEPT !.failed = TRUE, !.reported = FALSE]
                /\ UNCHANGED <<audioContext, pendingStarts, starts, run>>
        /\ UNCHANGED <<score, playState, now, timeouts, dirty, luthier>>

StartColumnFloored(startIndex) == Max(0, startIndex)

\* Math.max(0, Math.min(startIndex, this.columns.length - 1))
StartColumn(startIndex) == Max(0, Min(startIndex, Len(columns) - 1))

\* the continuation of start(): initialize() has resolved; out.call is the startIndex of
\* the call and the column the engine was at
InitDone ==
    /\ pendingStarts # <<>>
    /\ audioContext # "null"
    /\ LET col == StartColumn(Head(pendingStarts))
           time == now + StartOffset
           r == scheduler(TRUE, col, time, timeouts, timerID)
       IN  /\ isPlaying' = r.isPlaying
           /\ currentColumn' = r.currentColumn
           /\ nextNoteTime' = r.nextNoteTime
           /\ timerID' = r.timerID
           /\ timeouts' = r.timeouts
           /\ run' = IF starts = 1 /\ ~dirty
                     THEN [base |-> time, start |-> col, count |-> Len(r.rendered)]
                     ELSE NoRun
           /\ armed' = (armed /\ r.stops = 0)
           /\ out' = [Did("start") EXCEPT !.rendered = r.rendered, !.notes = r.notes,
                                          !.stops = r.stops,
                                          !.call = <<Head(pendingStarts), currentColumn>>]
    /\ pendingStarts' = Tail(pendingStarts)
    /\ UNCHANGED <<audioContext, score, now, starts, dirty, luthier>>

Stop ==
    /\ isPlaying' = FALSE
    /\ timeouts' = ClearTimeout(timeouts, timerID)
    /\ timerID' = 0
    /\ armed' = FALSE
    /\ dirty' = TRUE
    /\ run' = NoRun
    /\ out' = [Did("stop") EXCEPT !.stops = 1]
    /\ UNCHANGED <<audioContext, nextNoteTime, currentColumn, score, now, pendingStarts,
                   starts, luthier>>

\* a timeout may run once it is due and no timeout set before it is due as early
CanFire(i) ==
    /\ now >= timeouts[i].due
    /\ \A j \in 1 .. (i - 1) : timeouts[j].due > timeouts[i].due

\* the scheduler's timeout fires and takes the duration of a column it renders off the list
SchedulerTimerConsuming ==
    \E i \in DOMAIN timeouts :
        /\ timeouts[i].kind = "sched"
        /\ CanFire(i)
        /\ LET r == scheduler(isPlaying, currentColumn, nextNoteTime,
                              RemoveAt(timeouts, i), timerID)
           IN  /\ isPlaying' = r.isPlaying
               /\ currentColumn' = r.currentColumn
               /\ nextNoteTime' = r.nextNoteTime
               /\ timerID' = r.timerID
               /\ timeouts' = r.timeouts
               /\ run' = IF run = NoRun THEN NoRun
                         ELSE [run EXCEPT !.count = @ + Len(r.rendered)]
               /\ armed' = (armed /\ r.stops = 0)
               /\ out' = [Did("scheduler") EXCEPT !.rendered = r.rendered,
                                                  !.notes = r.notes, !.stops = r.stops]
               /\ durations' = IF r.rendered # <<>> /\ durations # <<>>
                                THEN Tail(durations) ELSE durations
        /\ UNCHANGED <<audioContext, columns, bpm, frequencies, lastNoteIndex, connections,
                       connectionMap, connectionTargets, snapshot, now, pendingStarts,
                       starts, dirty, luthier>>

\* the scheduler's timeout fires
SchedulerTimer ==
    \E i \in DOMAIN timeouts :
        /\ timeouts[i].kind = "sched"
        /\ CanFire(i)
        /\ LET r == scheduler(isPlaying, currentColumn, nextNoteTime,
                              RemoveAt(timeouts, i), timerID)
           IN  /\ isPlaying' = r.isPlaying
               /\ currentColumn' = r.currentColumn
               /\ nextNoteTime' = r.nextNoteTime
               /\ timerID' = r.timerID
               /\ timeouts' = r.timeouts
               /\ run' = IF run = NoRun THEN NoRun
                         ELSE [run EXCEPT !.count = @ + Len(r.rendered)]
               /\ armed' = (armed /\ r.stops = 0)
               /\ out' = [Did("scheduler") EXCEPT !.rendered = r.rendered,
                                                  !.notes = r.notes, !.stops = r.stops]
        /\ UNCHANGED <<audioContext, score, now, pendingStarts, starts, dirty, luthier>>

\* the timeout of a cursor tick fires
TickTimer ==
    \E i \in DOMAIN timeouts :
        /\ timeouts[i].kind = "tick"
        /\ CanFire(i)
        /\ timeouts' = RemoveAt(timeouts, i)
        /\ out' = [Idle EXCEPT !.op = "tick",
                               !.ticks = IF isPlaying THEN <<timeouts[i].col>> ELSE <<>>,
                               !.staleTick = (isPlaying /\ timeouts[i].stale)]
        /\ UNCHANGED <<audioContext, score, playState, now, pendingStarts, starts, armed,
                       dirty, run, luthier>>

\* the clock: a timeout runs when it is due; with no timeout pending the engine does not
\* depend on the clock
Advance ==
    /\ now < MaxTime
    /\ timeouts # <<>>
    /\ \A k \in DOMAIN timeouts : now < timeouts[k].due
    /\ now' = now + 1
    /\ out' = Idle
    /\ UNCHANGED <<audioContext, score, playState, pendingStarts, timeouts, starts, armed,
                   dirty, run, luthier>>

Next ==
    \/ SetScore
    \/ Start
    \/ InitDone
    \/ Stop
    \/ SchedulerTimer
    \/ TickTimer
    \/ Advance

Spec == Init /\ [][Next]_vars

\* one score, played once
StartOnce == starts = 0 /\ Start

NextPlay ==
    \/ StartOnce
    \/ InitDone
    \/ SchedulerTimer
    \/ TickTimer
    \/ Advance

SpecPlay == InitPlay /\ [][NextPlay]_vars

\* a single playback of a score without ties, for as long as it lasts.  The engine reads
\* the clock only to compare it with nextNoteTime and to compute the delay of a timeout,
\* so the times are kept as they stand to the clock: when the clock goes on by one unit,
\* nextNoteTime and the times the timeouts are due go down by one, and now stays 0.
LiveScores ==
    {x \in Scores : x.connections = {} /\ \A k \in DOMAIN x.durations : x.durations[k] = "16"}

\* the engine after setScore(x) and a stop() that found it Stopped
InitLive ==
    /\ audioContext = "null"
    /\ nextNoteTime = 0
    /\ timerID = 0
    /\ isPlaying = FALSE
    /\ currentColumn = 0
    /\ now = 0
    /\ pendingStarts = <<>>
    /\ timeouts = <<>>
    /\ starts = 0
    /\ armed = FALSE
    /\ dirty = TRUE
    /\ run = NoRun
    /\ out = [Idle EXCEPT !.op = "stop", !.stops = 1]
    /\ passes = 0
    /\ result = NotCalled
    /\ NoTab
    /\ \E x \in LiveScores : ScoreIs(x)

AdvanceLive ==
    /\ timeouts # <<>>
    /\ \A k \in DOMAIN timeouts : now < timeouts[k].due
    /\ nextNoteTime' = nextNoteTime - 1
    /\ timeouts' = [k \in DOMAIN timeouts |-> [timeouts[k] EXCEPT !.due = @ - 1]]
    /\ out' = Idle
    /\ UNCHANGED <<audioContext, score, timerID, isPlaying, currentColumn, now, pendingStarts,
                   starts, armed, dirty, run, luthier>>

NextLive ==
    \/ StartOnce
    \/ InitDone
    \/ SchedulerTimer
    \/ TickTimer
    \/ AdvanceLive

\* what the event loop and the clock guarantee: the promise of initialize() is settled, a
\* timeout that is due runs, and time goes on
SpecLive ==
    /\ InitLive
    /\ [][NextLive]_vars
    /\ WF_vars(InitDone)
    /\ WF_vars(SchedulerTimer)
    /\ WF_vars(TickTimer)
    /\ WF_vars(AdvanceLive)

\* one playback, during which the editor replaces the score
EditScore == SetScoreFrom(EditScores)

NextEdit ==
    \/ EditScore
    \/ StartOnce
    \/ InitDone
    \/ SchedulerTimer
    \/ TickTimer
    \/ Advance

SpecEdit == Init /\ [][NextEdit]_vars

-----------------------------------------------------------------------------
(* The fingering optimizer (optimizeFingering).  A frequency f is written   *)
(* as its pitch in cents, 6900 + 1200 * log2(f / 440) rounded to a cent,    *)
(* so that 69 + 12 * log2(f * 2^(fret/12) / 440) is (cents + 100 * fret)    *)
(* hundredths of a semitone.  A cost is counted in halves: 1.0 is 2, 0.5    *)
(* is 1 and -2.0 is -4.  Indices are 0-based as in the source, -1 stands    *)
(* for no index, and a value that may be undefined is a sequence of at      *)
(* most one element.                                                        *)

INSTRUMENTS ==
    [guitar  |-> [stringCount |-> 6,
                  frequencies |-> <<6400, 5900, 5500, 5000, 4500, 4000>>],
     bass    |-> [stringCount |-> 4, frequencies |-> <<4300, 3800, 3300, 2800>>],
     ukulele |-> [stringCount |-> 4, frequencies |-> <<6900, 6400, 6000, 6700>>]]

COST_FRET_DISTANCE == 2
COST_STRING_CROSSING == 1
COST_OPEN_STRING_BONUS == -4
Infinity == 1000000

Abs(x) == IF x < 0 THEN -x ELSE x

\* Math.round of a pitch in cents, in semitones
Round(cents) == (cents + 50) \div 100

getSemitoneSharp(stringOpenFreq, fret) == Round(stringOpenFreq + 100 * fret) + 1

getSemitone(stringOpenFreq, fret) == Round(stringOpenFreq + 100 * fret)

\* fret > -1: the muted note 'x' is not a number and the comparison is false
IsFretted(fret) == fret # Muted /\ fret > -1

RECURSIVE Select(_, _)
\* the elements of the sequence q at the indices of the set keep, in order
Select(q, keep) ==
    IF q = <<>> THEN <<>>
    ELSE LET rest == Select(SubSeq(q, 1, Len(q) - 1), keep)
         IN  IF Len(q) \in keep THEN Append(rest, q[Len(q)]) ELSE rest

\* the pitches of the notes of a column, by string
notesInCol(col, tuning) ==
    Select([k \in DOMAIN col |-> getSemitone(tuning[k], col[k])],
           {k \in DOMAIN col : IsFretted(col[k])})

sequenceWithChords(cols, tuning) ==
    Select([k \in DOMAIN cols |-> [index |-> k - 1, semitones |-> notesInCol(cols[k], tuning)]],
           {k \in DOMAIN cols : Len(notesInCol(cols[k], tuning)) >= 1})

\* the columns that hold a single note
sequence(cols, tuning) ==
    Select([k \in DOMAIN cols |-> [index |-> k - 1, semitones |-> notesInCol(cols[k], tuning)]],
           {k \in DOMAIN cols : Len(notesInCol(cols[k], tuning)) = 1})

neededFretSharp(targetPitch, openFreq) == targetPitch - Round(openFreq) + 1

neededFret(targetPitch, openFreq) == targetPitch - Round(openFreq)

\* the places on the fretboard of a pitch
options(targetPitch, tuning) ==
    Select([k \in DOMAIN tuning |->
               [strIndex |-> k - 1, fret |-> neededFret(targetPitch, tuning[k]),
                semitone |-> targetPitch]],
           {k \in DOMAIN tuning : /\ neededFret(targetPitch, tuning[k]) >= 0
                                   /\ neededFret(targetPitch, tuning[k]) <= 24})

graph(seq, tuning) == [i \in DOMAIN seq |-> options(seq[i].semitones[1], tuning)]

moveCostNoBonus(currOpt, prevOpt) ==
    Abs(currOpt.fret - prevOpt.fret) * COST_FRET_DISTANCE
        + Abs(currOpt.strIndex - prevOpt.strIndex) * COST_STRING_CROSSING

\* the cost of moving from prevOpt to currOpt
moveCost(currOpt, prevOpt) ==
    Abs(currOpt.fret - prevOpt.fret) * COST_FRET_DISTANCE
        + Abs(currOpt.strIndex - prevOpt.strIndex) * COST_STRING_CROSSING
        + (IF currOpt.fret = 0 THEN COST_OPEN_STRING_BONUS ELSE 0)

\* the sum of two numbers of which the first may be Infinity
Plus(a, b) == IF a = Infinity THEN Infinity ELSE a + b

RECURSIVE bestPrev(_, _, _, _, _)
\* prevOptions.forEach: the first position of the previous note with the least total cost
bestPrev(currOpt, prevOptions, prevCosts, prevIdx, best) ==
    IF prevIdx >= Len(prevOptions) THEN best
    ELSE LET totalCost == Plus(prevCosts[prevIdx + 1],
                               moveCost(currOpt, prevOptions[prevIdx + 1]))
         IN  bestPrev(currOpt, prevOptions, prevCosts, prevIdx + 1,
                      IF totalCost < best.minCost
                      THEN [minCost |-> totalCost, bestPrevIdx |-> prevIdx]
                      ELSE best)

firstRowWithBonus(opts) ==
    [dp |-> [j \in DOMAIN opts |-> IF opts[j].fret = 0 THEN COST_OPEN_STRING_BONUS ELSE 0],
     path |-> [j \in DOMAIN opts |-> -1]]

\* dp[0] and path[0]
firstRow(opts) == [dp |-> [j \in DOMAIN opts |-> 0], path |-> [j \in DOMAIN opts |-> -1]]

\* dp[i] and path[i] from dp[i - 1]
nextRow(prevRow, prevOptions, currentOptions) ==
    LET best == [j \in DOMAIN currentOptions |->
                    bestPrev(currentOptions[j], prevOptions, prevRow.dp, 0,
                             [minCost |-> Infinity, bestPrevIdx |-> -1])]
    IN  [dp |-> [j \in DOMAIN currentOptions |-> best[j].minCost],
         path |-> [j \in DOMAIN currentOptions |-> best[j].bestPrevIdx]]

RECURSIVE viterbi(_, _)
\* the rows dp[0 .. i - 1] and path[0 .. i - 1] of the graph g
viterbi(g, i) ==
    IF i = 1 THEN <<firstRow(g[1])>>
    ELSE LET rows == viterbi(g, i - 1)
         IN  Append(rows, nextRow(rows[i - 1], g[i - 1], g[i]))

RECURSIVE bestFinalLast(_, _, _)
bestFinalLast(costs, idx, best) ==
    IF idx >= Len(costs) THEN best
    ELSE bestFinalLast(costs, idx + 1,
                       IF costs[idx + 1] <= best.minFinalCost
                       THEN [minFinalCost |-> costs[idx + 1], bestFinalIdx |-> idx]
                       ELSE best)

RECURSIVE bestFinal(_, _, _)
\* dp[lastStep].forEach: the first ending with the least cost
bestFinal(costs, idx, best) ==
    IF idx >= Len(costs) THEN best
    ELSE bestFinal(costs, idx + 1,
                   IF costs[idx + 1] < best.minFinalCost
                   THEN [minFinalCost |-> costs[idx + 1], bestFinalIdx |-> idx]
                   ELSE best)

\* row[idx], undefined when idx is no index of the row
At(row, idx) == IF idx >= 0 /\ idx < Len(row) THEN <<row[idx + 1]>> ELSE <<>>

RECURSIVE backtrack(_, _, _, _, _)
\* optimizedMapping for the notes 0 .. i - 1, the note i - 1 being at option currentIdx
backtrack(seq, g, rows, i, currentIdx) ==
    IF i = 0 THEN <<>>
    ELSE LET prev == At(rows[i].path, currentIdx)
         IN  Append(backtrack(seq, g, rows, i - 1, IF prev = <<>> THEN -1 ELSE prev[1]),
                    [colIndex |-> seq[i].index, option |-> At(g[i], currentIdx)])

RECURSIVE rewriteKeeping(_, _, _, _)
rewriteKeeping(newColumns, mapping, k, stringCount) ==
    IF k > Len(mapping) THEN [raised |-> FALSE, newColumns |-> newColumns]
    ELSE LET colIndex == mapping[k].colIndex
             option == mapping[k].option
         IN  IF option = <<>> THEN [raised |-> TRUE, newColumns |-> newColumns]
             ELSE rewriteKeeping([newColumns EXCEPT ![colIndex + 1][option[1].strIndex + 1] =
                                                       option[1].fret],
                                 mapping, k + 1, stringCount)

RECURSIVE rewrite(_, _, _, _)
\* optimizedMapping.forEach from item k on: reading option.strIndex of an undefined option
\* raises a TypeError, after the column has been cleared
rewrite(newColumns, mapping, k, stringCount) ==
    IF k > Len(mapping) THEN [raised |-> FALSE, newColumns |-> newColumns]
    ELSE LET colIndex == mapping[k].colIndex
             option == mapping[k].option
             cleared == [newColumns EXCEPT ![colIndex + 1] = [x \in 1 .. stringCount |-> Empty]]
         IN  IF option = <<>> THEN [raised |-> TRUE, newColumns |-> cleared]
             ELSE rewrite([cleared EXCEPT ![colIndex + 1][option[1].strIndex + 1] =
                                              option[1].fret],
                          mapping, k + 1, stringCount)

inputShared(cols, newColumns) == newColumns

\* what the caller's columns hold after the writes to newColumns, which is a copy of them
\* (columns.map(col => [...col]))
inputAfter(cols, newColumns) == cols

optimizeFingeringEager(cols, instrType) ==
    LET instrument == INSTRUMENTS[instrType]
        tuning == instrument.frequencies
        seq == sequence(cols, tuning)
    IN  IF Len(seq) < 1
        THEN [called |-> TRUE, raised |-> FALSE, argument |-> cols, columns |-> cols,
              input |-> cols]
        ELSE LET g == graph(seq, tuning)
                 rows == viterbi(g, Len(g))
                 final == bestFinal(rows[Len(g)].dp, 0,
                                    [minFinalCost |-> Infinity, bestFinalIdx |-> -1])
                 optimizedMapping == backtrack(seq, g, rows, Len(g), final.bestFinalIdx)
                 r == rewrite(cols, optimizedMapping, 1, instrument.stringCount)
             IN  [called |-> TRUE, raised |-> r.raised, argument |-> cols,
                  columns |-> r.newColumns, input |-> inputAfter(cols, r.newColumns)]

\* optimizeFingering(columns, instrumentType): whether it raised, the columns it returned
\* (its newColumns when it raised) and what it left in its argument
optimizeFingering(cols, instrType) ==
    LET instrument == INSTRUMENTS[instrType]
        tuning == instrument.frequencies
        seq == sequence(cols, tuning)
    IN  IF Len(seq) < 2
        THEN [called |-> TRUE, raised |-> FALSE, argument |-> cols, columns |-> cols,
              input |-> cols]
        ELSE LET g == graph(seq, tuning)
                 rows == viterbi(g, Len(g))
                 final == bestFinal(rows[Len(g)].dp, 0,
                                    [minFinalCost |-> Infinity, bestFinalIdx |-> -1])
                 optimizedMapping == backtrack(seq, g, rows, Len(g), final.bestFinalIdx)
                 r == rewrite(cols, optimizedMapping, 1, instrument.stringCount)
             IN  [called |-> TRUE, raised |-> r.raised, argument |-> cols,
                  columns |-> r.newColumns, input |-> inputAfter(cols, r.newColumns)]

-----------------------------------------------------------------------------
(* The editor's Optimize command *)

MaxTabCols == 3
MaxPasses == 2

InstrumentTypes == {"guitar", "bass", "ukulele"}

\* a column of n strings with the given cells <<string, note>>, empty elsewhere
ColumnWith(n, cells) ==
    [k \in 1 .. n |-> IF \E c \in cells : c[1] = k - 1
                      THEN (CHOOSE c \in cells : c[1] = k - 1)[2]
                      ELSE Empty]

\* an empty column, single notes (two of them above the 24th fret), a chord, a note beside
\* a muted string, and a number that is no note
TabCells ==
    {{}, {<<0, 0>>}, {<<1, 5>>}, {<<3, 7>>}, {<<0, 25>>}, {<<3, 30>>},
     {<<0, 0>>, <<1, 5>>}, {<<0, Muted>>, <<2, 2>>}, {<<0, -2>>}}

Tabs(n) ==
    UNION {[1 .. k -> {ColumnWith(n, cells) : cells \in TabCells}] : k \in 0 .. MaxTabCols}

InitOpt ==
    /\ Constructed
    /\ \E t \in InstrumentTypes :
           /\ instrumentType = t
           /\ tab \in Tabs(INSTRUMENTS[t].stringCount)

\* handleOptimize: the columns optimizeFingering returns become the editor's columns
handleOptimize ==
    /\ passes < MaxPasses
    /\ result' = optimizeFingering(tab, instrumentType)
    /\ tab' = IF result'.raised THEN result'.input ELSE result'.columns
    /\ passes' = passes + 1
    /\ UNCHANGED <<instrumentType, audioContext, score, playState, now, pendingStarts,
                   timeouts, starts, armed, dirty, run, out>>

NextOpt == handleOptimize

SpecOpt == InitOpt /\ [][NextOpt]_vars

\* a melody of two pitches, E4 and G4 on the guitar and F4 and G4 on the ukulele: every
\* column that holds one of the two pitches alone, on any string, and the empty column
MaxMelodyCols == 2
MelodyPitches == [guitar |-> {64, 67}, ukulele |-> {65, 67}]

MelodyColumns(t) ==
    {ColumnWith(INSTRUMENTS[t].stringCount, {})} \cup
    {ColumnWith(INSTRUMENTS[t].stringCount, {<<pl[1] - 1, pl[2]>>}) : pl \in
        {pl \in (1 .. INSTRUMENTS[t].stringCount) \X (0 .. 24) :
            getSemitone(INSTRUMENTS[t].frequencies[pl[1]], pl[2]) \in MelodyPitches[t]}}

InitMelody ==
    /\ Constructed
    /\ \E t \in DOMAIN MelodyPitches :
           /\ instrumentType = t
           /\ tab \in UNION {[1 .. k -> MelodyColumns(t)] : k \in 0 .. MaxMelodyCols}

NextMelody == handleOptimize

SpecMelody == InitMelody /\ [][NextMelody]_vars

-----------------------------------------------------------------------------
(* The claims *)

SchedulerTimeouts == {k \in DOMAIN timeouts : timeouts[k].kind = "sched"}

\* the number, in its playback, of the k-th column the last handler rendered
RenderIndex(k) == run.count - Len(out.rendered) + (k - 1)

SecondsPerStep == SecondsPerBeat \div 4

StepsOf(duration) ==
    CASE duration = "1" -> 16
      [] duration = "2" -> 8
      [] duration = "4" -> 4
      [] duration = "8" -> 2
      [] duration = "16" -> 1

UniformDuration(d) == columns # <<>> /\ \A k \in DOMAIN columns : DurationAt(k - 1) = d

\* C1: once stop() has returned no column is rendered before start() is called again
C1_NoRenderAfterStop == out.rendered # <<>> => out.wasArmed

\* C2: a stop() fires the stop notification once if the engine was Playing and not at
\* all if it was Stopped
C2_StopIdempotent == out.op = "stop" => out.stops = (IF out.wasPlaying THEN 1 ELSE 0)

\* C3: a playback started at or before the last non-empty column N renders the columns
\* up to N and no column after it, and has rendered column N when it has stopped
C3_AutoStopExact ==
    (run # NoRun /\ lastNoteIndex >= 0 /\ run.start <= lastNoteIndex) =>
        /\ run.count <= lastNoteIndex - run.start + 1
        /\ ~isPlaying => run.count = lastNoteIndex - run.start + 1

\* C4 as claimed: a playback of a score with no non-empty cell is Stopped after its first
\* scheduling tick
C4_EmptyScoreStops == (run # NoRun /\ lastNoteIndex = -1) => ~isPlaying

\* C4 as amended: a playback of a score with no non-empty cell does not stop by itself:
\* it stays Playing with its scheduler timer pending, renders column after column,
\* fires no stop notification and triggers no note
C4_EmptyScoreKeepsPlaying ==
    (run # NoRun /\ lastNoteIndex = -1) =>
        /\ isPlaying
        /\ timerID \in {timeouts[k].id : k \in SchedulerTimeouts}
        /\ run.count > 0
        /\ out.stops = 0
        /\ out.notes = {}

C4_Witness ==
    /\ run # NoRun
    /\ lastNoteIndex = -1
    /\ Len(columns) = 2
    /\ run.count > Len(columns)
    /\ out.op = "scheduler"
    /\ out.rendered # <<>>
    /\ isPlaying

\* C5 as claimed: in a score whose columns all have duration D the k-th column rendered
\* is triggered at baseTime + k * D_steps * secondsPerStep
C5_ScheduleFollowsDurations ==
    run # NoRun =>
        \A d \in DurVals : UniformDuration(d) =>
            \A k \in DOMAIN out.rendered :
                out.rendered[k].time = run.base + RenderIndex(k) * StepsOf(d) * SecondsPerStep

\* C5 as amended: the k-th column rendered is triggered at baseTime + k * secondsPerStep
\* whatever the durations of the columns, and nextNoteTime is one step after the last
C5_ScheduleSixteenthGrid ==
    run # NoRun =>
        /\ nextNoteTime = run.base + run.count * SecondsPerStep
        /\ \A k \in DOMAIN out.rendered :
               out.rendered[k].time = run.base + RenderIndex(k) * SecondsPerStep

C5_Witness ==
    /\ run # NoRun
    /\ UniformDuration("1")
    /\ run.count >= 3
    /\ out.op = "scheduler"
    /\ out.rendered # <<>>
    /\ out.rendered[1].time = run.base + 2 * SecondsPerStep

Playable(c, s) ==
    c \in 0 .. (Len(columns) - 1) /\ Cell(columns, c, s) \notin {Empty, Muted}

\* the marker at (p, s) sustains into the note at (c, s)
PointsTo(p, c, s) ==
    /\ <<p, s>> \in connections
    /\ p \in 0 .. (Len(columns) - 1)
    /\ NextNoteIndex(columns, p, s) = c

\* a -> b -> c is a whole tie chain of three notes on string s
IsChain(a, b, c, s) ==
    /\ Playable(a, s) /\ Playable(b, s) /\ Playable(c, s)
    /\ PointsTo(a, b, s) /\ PointsTo(b, c, s)
    /\ \A p \in 0 .. (Len(columns) - 1) : ~PointsTo(p, a, s) /\ ~PointsTo(c, p, s)

NotesAt(c, s, t) == {n \in out.notes : n.col = c /\ n.str = s /\ n.time = t}

NominalDuration(c) == StepsOf(DurationAt(c)) * SecondsPerStep

\* C6: in a playback started at or before the head of a tie chain a -> b -> c, rendering
\* the head triggers one note whose duration is the sum of the three columns' nominal
\* durations, and rendering b or c triggers no note on that string
C6_TieChainSum ==
    run # NoRun =>
        \A k \in DOMAIN out.rendered :
            LET r == out.rendered[k] IN
            \A a, b, c \in 0 .. (Len(columns) - 1), s \in Strings :
                (r.col \in {a, b, c} /\ run.start <= a /\ IsChain(a, b, c, s)) =>
                    /\ r.col = a =>
                          /\ Cardinality(NotesAt(a, s, r.time)) = 1
                          /\ \A n \in NotesAt(a, s, r.time) :
                                n.dur = NominalDuration(a) + NominalDuration(b)
                                            + NominalDuration(c)
                    /\ r.col \in {b, c} => NotesAt(r.col, s, r.time) = {}

C6_Witness ==
    /\ run # NoRun
    /\ run.start = 0
    /\ IsChain(0, 1, 2, 0)
    /\ durations = <<"4", "8", "4">>
    /\ bpm = 600
    /\ {out.rendered[k].col : k \in DOMAIN out.rendered} = {0, 1}
    /\ \E n \in out.notes : n.col = 0 /\ n.str = 0 /\ n.dur = 10

\* C7: a tie marker on an empty cell is ignored: a note that only such markers sustain
\* into is triggered when its column is rendered
C7_EmptySourceIgnored ==
    \A k \in DOMAIN out.rendered, s \in Strings :
        LET r == out.rendered[k] IN
        (/\ Playable(r.col, s)
         /\ \A p \in 0 .. (Len(columns) - 1) :
                PointsTo(p, r.col, s) => Cell(columns, p, s) = Empty)
            => NotesAt(r.col, s, r.time) # {}

\* C8: a start() that finds no audio device reports the failure to its caller
C8_StartFailureReported == (out.op = "start" /\ out.failed) => out.reported

\* C9: no cursor tick queued by a playback that has been stopped reaches onTick
C9_NoStaleTick == ~out.staleTick

\* C10: at most one scheduler timer is pending, and none while the engine is Stopped
C10_OneSchedulerTimer ==
    /\ Cardinality(SchedulerTimeouts) <= 1
    /\ ~isPlaying => SchedulerTimeouts = {}

\* the column start(i) is to begin at in a score of n columns
ClampedStart(i, n) == IF n = 0 THEN 0 ELSE Min(Max(i, 0), n - 1)

\* C11: when start(i) takes effect the first column rendered is i clamped into the score,
\* and when the playback stops before it renders a column that is where the engine stands
C11_StartClamps ==
    (out.op = "start" /\ out.call # <<>>) =>
        LET c == ClampedStart(out.call[1], Len(columns))
        IN  IF out.rendered # <<>> THEN out.rendered[1].col = c ELSE currentColumn = c

\* a start beyond the last column, with the engine left at another column by the playback
\* before, renders the last column first
C11_Witness ==
    /\ out.op = "start"
    /\ out.call # <<>>
    /\ out.call[1] > Len(columns) - 1
    /\ Len(columns) = 1
    /\ out.call[2] = 1
    /\ out.rendered # <<>>
    /\ out.rendered[1].col = 0

\* C12: a note is triggered only for a cell that holds a fret from 0 to 24
C12_UnplayableSilent == \A n \in out.notes : n.fret \in 0 .. 24

\* the columns the last handler rendered have increasing times, all before nextNoteTime,
\* and each note it triggered has the time of the rendering of its column
RenderedInOrder ==
    /\ \A k \in DOMAIN out.rendered :
           /\ out.rendered[k].time < nextNoteTime
           /\ k > 1 => out.rendered[k - 1].time < out.rendered[k].time
           /\ \A s \in Strings :
                  (out.rendered[k].col < Len(columns) /\ Attacks(out.rendered[k].col, s)) =>
                      NotesAt(out.rendered[k].col, s, out.rendered[k].time) # {}
    /\ \A n \in out.notes :
           \E k \in DOMAIN out.rendered :
               out.rendered[k].col = n.col /\ out.rendered[k].time = n.time

\* a handler of a playback renders no column before the nextNoteTime it found
RendersLater ==
    (run # NoRun /\ run' # NoRun) =>
        /\ nextNoteTime' >= nextNoteTime
        /\ \A k \in DOMAIN out'.rendered : out'.rendered[k].time >= nextNoteTime

\* C13: within one playback each column is rendered at a time strictly greater than the
\* column rendered before it, in the same scheduling tick or in an earlier one, and all
\* notes of a column are triggered with the time of that column
C13_TimesIncrease == [](run # NoRun => RenderedInOrder) /\ [][RendersLater]_vars

C13_Witness ==
    /\ run # NoRun
    /\ out.op = "scheduler"
    /\ out.rendered # <<>>
    /\ run.count > Len(out.rendered)
    /\ \E n, m \in out.notes : n.col = m.col /\ n.time = m.time /\ n.str # m.str

\* what the arguments of the last setScore call say of a column: the step of the grid,
\* the nominal duration, the note a marker at (c, s) sustains into, the sustain of a note
\* with the notes tied to it, and whether the cell sounds
SnapStep == (2400 \div snapshot.bpm) \div 4

SnapDuration(c) ==
    StepsOf(IF c + 1 \in DOMAIN snapshot.durations THEN snapshot.durations[c + 1] ELSE "8")
        * SnapStep

SnapNext(c, s) ==
    IF <<c, s>> \in snapshot.connections /\ c \in 0 .. (Len(snapshot.columns) - 1)
    THEN NextNoteIndex(snapshot.columns, c, s)
    ELSE -1

RECURSIVE SnapSustain(_, _)
SnapSustain(c, s) ==
    SnapDuration(c) + (IF SnapNext(c, s) = -1 THEN 0 ELSE SnapSustain(SnapNext(c, s), s))

SnapSounds(c, s) ==
    /\ c \in 0 .. (Len(snapshot.columns) - 1)
    /\ Cell(snapshot.columns, c, s) \notin {Empty, Muted}
    /\ s + 1 \in DOMAIN snapshot.frequencies
    /\ \A p \in 0 .. (Len(snapshot.columns) - 1) : SnapNext(p, s) # c

SnapNote(c, s, t) ==
    [col |-> c, str |-> s, fret |-> Cell(snapshot.columns, c, s),
     base |-> snapshot.frequencies[s + 1], time |-> t, dur |-> SnapSustain(c, s)]

\* C14: whatever a scheduling tick does follows from the arguments of the last setScore
\* call: the notes it triggers (their cells, tuning, durations and ties), the step
\* between the columns it renders, and the last non-empty column it stops after
C14_SnapshotFresh ==
    out.op \in {"start", "scheduler"} =>
        LET last == LastNoteIndexOf(snapshot.columns) IN
        /\ \A k \in DOMAIN out.rendered :
               LET r == out.rendered[k] IN
               /\ ~(last # -1 /\ r.col > last)
               /\ k > 1 => r.time = out.rendered[k - 1].time + SnapStep
               /\ \A s \in Strings :
                      NotesAt(r.col, s, r.time) =
                          IF SnapSounds(r.col, s) THEN {SnapNote(r.col, s, r.time)} ELSE {}
        /\ out.rendered # <<>> =>
               nextNoteTime = out.rendered[Len(out.rendered)].time + SnapStep
        /\ out.stops > 0 => (last # -1 /\ currentColumn > last)

\* a playback whose score was replaced, after start() was called, by a tied score at
\* 600 bpm renders the head of the tie in a later scheduling tick, at a time no playback
\* of that score alone reaches it, with the sustain of both notes
C14_Witness ==
    /\ isPlaying
    /\ dirty
    /\ snapshot.bpm = 600
    /\ snapshot.connections # {}
    /\ out.op = "scheduler"
    /\ \E k \in DOMAIN out.rendered :
           /\ out.rendered[k].time = 6
           /\ out.rendered[k].col = 0
           /\ NotesAt(0, 0, 6) = {SnapNote(0, 0, 6)}
    /\ \E n \in out.notes : n.dur > SnapDuration(n.col)

\* the strings of a column that hold a fretted note
FrettedStrings(col) == {k \in DOMAIN col : IsFretted(col[k])}

\* the columns of a tab that hold a single fretted note
EligibleCols(cols) == {k \in DOMAIN cols : Cardinality(FrettedStrings(cols[k])) = 1}

\* the columns a call with the argument cols re-fingers
RewrittenCols(cols) == IF Cardinality(EligibleCols(cols)) >= 2 THEN EligibleCols(cols) ELSE {}

\* the semitone numbers of the fretted notes of a column under the editor's tuning
SemitonesOf(col) ==
    {getSemitone(INSTRUMENTS[instrumentType].frequencies[k], col[k]) : k \in FrettedStrings(col)}

Returned == result.called /\ ~result.raised

\* C15: every column optimizeFingering has re-fingered holds one note, on a fret from 0
\* to 24, whose semitone number is that of the single note the column held
C15_PitchPreserved ==
    Returned =>
        \A k \in RewrittenCols(result.argument) :
            /\ Cardinality(FrettedStrings(result.columns[k])) = 1
            /\ \A x \in FrettedStrings(result.columns[k]) : result.columns[k][x] \in 0 .. 24
            /\ SemitonesOf(result.columns[k]) = SemitonesOf(result.argument[k])

\* a note above the 24th fret has been moved to another string
C15_Witness ==
    /\ Returned
    /\ passes = 1
    /\ \E k \in RewrittenCols(result.argument) :
           /\ \E x \in FrettedStrings(result.argument[k]) : result.argument[k][x] > 24
           /\ FrettedStrings(result.columns[k]) # FrettedStrings(result.argument[k])

\* the eligible columns of a tab in order: the i-th is Nth(EligibleCols(cols), i)
Nth(S, i) == CHOOSE x \in S : Cardinality({y \in S : y < x}) = i - 1

\* the place <<string, fret>> of the single note of an eligible column
PlaceOf(col) == CHOOSE pl \in {<<k, col[k]>> : k \in FrettedStrings(col)} : TRUE

\* the places with a fret from 0 to 24 that give the pitch of the note of an eligible column
Candidates(col) ==
    UNION {{pl \in (1 .. INSTRUMENTS[instrumentType].stringCount) \X (0 .. 24) :
               getSemitone(INSTRUMENTS[instrumentType].frequencies[pl[1]], pl[2]) = s} :
           s \in SemitonesOf(col)}

\* the transition cost from the place a to the place b, in halves
StepCost(a, b) ==
    2 * Abs(b[2] - a[2]) + Abs(b[1] - a[1]) - (IF b[2] = 0 THEN 4 ELSE 0)

\* the eligible columns of a tab, in order
EligibleSeq(cols) ==
    [i \in 1 .. Cardinality(EligibleCols(cols)) |-> cols[Nth(EligibleCols(cols), i)]]

RECURSIVE CostFrom(_, _)
\* the total transition cost of the sequence of places from its i-th on
CostFrom(places, i) ==
    IF i >= Len(places) THEN 0
    ELSE StepCost(places[i], places[i + 1]) + CostFrom(places, i + 1)

\* the total transition cost of the notes of the eligible columns of a tab
PathCost(cols) == CostFrom([i \in DOMAIN EligibleSeq(cols) |-> PlaceOf(EligibleSeq(cols)[i])], 1)

RECURSIVE LeastCostFrom(_, _, _)
\* the least total cost of a choice from the sets of candidates after the i-th, the i-th
\* note being at the place a: every choice is tried
LeastCostFrom(cands, i, a) ==
    IF i >= Len(cands) THEN 0
    ELSE SetMin({StepCost(a, b) + LeastCostFrom(cands, i + 1, b) : b \in cands[i + 1]})

LeastCost(cols) ==
    SetMin(UNION {{LeastCostFrom(cands, 1, a) : a \in cands[1]} :
                     cands \in {[i \in DOMAIN EligibleSeq(cols) |->
                                    Candidates(EligibleSeq(cols)[i])]}})

AllReachable(cols) == \A k \in EligibleCols(cols) : Candidates(cols[k]) # {}

\* C16: when two or more columns are eligible and each of their notes has a candidate,
\* the placements returned have the least total transition cost of all choices of one
\* candidate per eligible note
C16_Optimal ==
    (result.called /\ RewrittenCols(result.argument) # {} /\ AllReachable(result.argument)) =>
        /\ Returned
        /\ PathCost(result.columns) = LeastCost(result.argument)

\* three notes have been placed at a total cost below the cost of the places they had
C16_Witness ==
    /\ Returned
    /\ passes = 1
    /\ Cardinality(RewrittenCols(result.argument)) = 3
    /\ AllReachable(result.argument)
    /\ PathCost(result.columns) < PathCost(result.argument)
    /\ PathCost(result.columns) < 0

\* C17: no call of optimizeFingering raises
C17_NeverRaises == result.called => ~result.raised

\* C18: a column that holds no fretted note, or two or more, is in the returned columns
\* what it is in the argument, cell for cell
C18_NonInterference ==
    Returned =>
        /\ Len(result.columns) = Len(result.argument)
        /\ \A k \in DOMAIN result.argument \ EligibleCols(result.argument) :
               result.columns[k] = result.argument[k]

\* a chord stands between notes that have been moved
C18_Witness ==
    /\ Returned
    /\ passes = 1
    /\ \E k \in DOMAIN result.argument : Cardinality(FrettedStrings(result.argument[k])) = 2
    /\ \E k \in RewrittenCols(result.argument) : result.columns[k] # result.argument[k]

\* a call of optimizeFingering on the columns the call before it returned returns them
OutputIsFixed ==
    (Returned /\ passes' = passes + 1) =>
        /\ result'.argument = result.columns
        /\ ~result'.raised
        /\ result'.columns = result.columns

\* C19: optimizeFingering applied to the columns it has returned, with the same
\* instrument, returns columns equal to them
C19_Idempotent == [][OutputIsFixed]_vars

\* the second call has returned the columns of the first, which hold a column that no
\* tab of the editor holds before a call
C19_Witness ==
    /\ Returned
    /\ passes = 2
    /\ result.columns = result.argument
    /\ \E k \in RewrittenCols(result.argument) :
           \A cells \in TabCells :
               result.argument[k] # ColumnWith(INSTRUMENTS[instrumentType].stringCount, cells)

PitchesOf(cols) ==
    [i \in DOMAIN EligibleSeq(cols) |->
        CHOOSE p \in SemitonesOf(EligibleSeq(cols)[i]) : TRUE]

\* the places <<string, fret>> of the notes of the eligible columns of a tab, in order
PlacesOf(cols) == [i \in DOMAIN EligibleSeq(cols) |-> PlaceOf(EligibleSeq(cols)[i])]

\* C21: on the guitar two eligible columns of the pitches 64 and 67 come back as string 2
\* fret 9 and string 1 fret 8 (strings counted from 0), at the cost 1.5, and every other
\* pair of places of the two pitches costs more
C21_Regression ==
    (/\ result.called
     /\ instrumentType = "guitar"
     /\ Cardinality(EligibleCols(result.argument)) = 2
     /\ PitchesOf(result.argument) = <<64, 67>>) =>
        /\ Returned
        /\ PlacesOf(result.columns) = << <<3, 9>>, <<2, 8>> >>
        /\ 2 * PathCost(result.columns) = 3 * COST_FRET_DISTANCE
        /\ \A cost \in {PathCost(result.columns)} :
               \A a \in Candidates(EligibleSeq(result.argument)[1]),
                  b \in Candidates(EligibleSeq(result.argument)[2]) :
                   <<a, b>> # << <<3, 9>>, <<2, 8>> >> => StepCost(a, b) > cost

\* the open E and the G of the third fret of the first string have been moved
C21_Witness ==
    /\ Returned
    /\ passes = 1
    /\ instrumentType = "guitar"
    /\ result.argument = <<ColumnWith(6, {<<0, 0>>}), ColumnWith(6, {<<0, 3>>})>>
    /\ result.columns = <<ColumnWith(6, {<<2, 9>>}), ColumnWith(6, {<<1, 8>>})>>

RECURSIVE CostTo(_, _, _)
\* the least total cost of a choice of candidates for the notes up to the i-th that has the
\* i-th note at the place a
CostTo(cands, i, a) ==
    IF i = 1 THEN 0
    ELSE SetMin({CostTo(cands, i - 1, b) + StepCost(b, a) : b \in cands[i - 1]})

\* the cost of the notes up to the i-th with the i-th at b, and of the step to the place
\* next of the note after it (<<>> after the last note)
CostVia(cands, i, b, next) ==
    CostTo(cands, i, b) + (IF next = <<>> THEN 0 ELSE StepCost(b, next))

\* the places of cands[i] of the least CostVia
Cheapest(cands, i, next) ==
    UNION {{b \in cands[i] : CostVia(cands, i, b, next) = least} :
              least \in {SetMin({CostVia(cands, i, b, next) : b \in cands[i]})}}

\* the place of a set that is enumerated first: the one on the lowest string
FirstOf(places) == CHOOSE a \in places : \A b \in places : a[1] <= b[1]

RECURSIVE FirstCheapest(_, _, _)
\* the places of the notes up to the i-th: each the first of the cheapest before next
FirstCheapest(cands, i, next) ==
    IF i = 0 THEN <<>>
    ELSE Append(FirstCheapest(cands, i - 1, FirstOf(Cheapest(cands, i, next))),
                FirstOf(Cheapest(cands, i, next)))

\* the sets of candidates of the eligible notes of a tab
CandidatesOf(cols) == [i \in DOMAIN EligibleSeq(cols) |-> Candidates(EligibleSeq(cols)[i])]

\* some note has two cheapest places before the place chosen for the note after it
RECURSIVE Tied(_, _, _)
Tied(cands, i, next) ==
    /\ i > 0
    /\ \/ Cardinality(Cheapest(cands, i, next)) > 1
       \/ Tied(cands, i - 1, FirstOf(Cheapest(cands, i, next)))

\* C22: of the places of the last eligible note that end a path of the least cost the one
\* on the lowest string is returned, and before each place returned the place of the
\* note before it that is the first of those of the least cost up to there
C22_FirstWins ==
    (result.called /\ RewrittenCols(result.argument) # {} /\ AllReachable(result.argument)) =>
        \A cands \in {CandidatesOf(result.argument)} :
            PlacesOf(result.columns) = FirstCheapest(cands, Len(cands), <<>>)

\* several places of the last note end a cheapest path, and several places of a note
\* before it are the cheapest before the place chosen after them
C22_Witness ==
    /\ Returned
    /\ passes = 1
    /\ RewrittenCols(result.argument) # {}
    /\ AllReachable(result.argument)
    /\ \E cands \in {CandidatesOf(result.argument)} :
           /\ Cardinality(Cheapest(cands, Len(cands), <<>>)) > 1
           /\ Tied(cands, Len(cands) - 1, FirstOf(Cheapest(cands, Len(cands), <<>>)))

\* C23: a call on columns of which fewer than two hold a single fretted note returns
\* columns equal to them
C23_ShortUnchanged ==
    (result.called /\ Cardinality(EligibleCols(result.argument)) < 2) =>
        /\ ~result.raised
        /\ result.columns = result.argument

\* three columns, of which one holds a single note that is not at the first of its places
\* and one holds a chord, have come back as they were
C23_Witness ==
    /\ Returned
    /\ passes = 1
    /\ Len(result.argument) = 3
    /\ Cardinality(EligibleCols(result.argument)) = 1
    /\ \E k \in DOMAIN result.argument : Cardinality(FrettedStrings(result.argument[k])) = 2
    /\ \E k \in EligibleCols(result.argument) :
           /\ Candidates(result.argument[k]) # {}
           /\ PlaceOf(result.argument[k]) # FirstOf(Candidates(result.argument[k]))
    /\ result.columns = result.argument

\* C24: the columns, the durations, the tuning and the tie markers passed to the last
\* setScore call, which the engine holds, are what they were when they were passed
C24_ScoreIntact ==
    /\ columns = snapshot.columns
    /\ durations = snapshot.durations
    /\ frequencies = snapshot.frequencies
    /\ connections = snapshot.connections

\* a tied score, passed after start() was called, has been played until the scheduler
\* stopped the engine past its last note
C24_Witness ==
    /\ dirty
    /\ snapshot.connections # {}
    /\ out.op = "scheduler"
    /\ out.stops = 1
    /\ ~isPlaying
    /\ currentColumn > LastNoteIndexOf(snapshot.columns)
    /\ columns = snapshot.columns
    /\ durations = snapshot.durations
    /\ connections = snapshot.connections

\* the columns after c whose cell on string s is not empty
LaterNotes(c, s) == {i \in (c + 1) .. (Len(columns) - 1) : Cell(columns, i, s) # Empty}

\* the markers of the score that stand in a column of it
Markers == {m \in connections : m[1] \in 0 .. (Len(columns) - 1)}

\* C26: a marker at (c, s) is linked to the first column after c whose cell on string s
\* is not empty, and that cell is a target; a marker with no such column has no link and
\* makes no target, and a note at its cell is triggered with the nominal duration of its
\* own column
C26_LinkResolution ==
    /\ DOMAIN connectionMap = {m \in Markers : LaterNotes(m[1], m[2]) # {}}
    /\ \A m \in DOMAIN connectionMap :
           /\ connectionMap[m] \in LaterNotes(m[1], m[2])
           /\ \A i \in LaterNotes(m[1], m[2]) : connectionMap[m] <= i
    /\ connectionTargets = {<<connectionMap[m], m[2]>> : m \in DOMAIN connectionMap}
    /\ \A n \in out.notes :
           (<<n.col, n.str>> \in connections /\ LaterNotes(n.col, n.str) = {}) =>
               n.dur = NominalDuration(n.col)

\* the marker of column 0 is linked to column 2 over the empty column 1, the marker of
\* column 2 has no note after it, and the note of column 0 has been triggered with the
\* durations of the columns 0 and 2
C26_Witness ==
    /\ Len(columns) = 3
    /\ Cell(columns, 0, 0) = 3 /\ Cell(columns, 1, 0) = Empty /\ Cell(columns, 2, 0) = 3
    /\ connections = {<<0, 0>>, <<2, 0>>}
    /\ connectionMap[<<0, 0>>] = 2
    /\ <<2, 0>> \notin DOMAIN connectionMap
    /\ durations = <<"4", "8", "4">>
    /\ \E n \in out.notes :
           n.col = 0 /\ n.str = 0 /\ n.dur = NominalDuration(0) + NominalDuration(2)

RECURSIVE TickColumns(_)
\* the columns of the cursor ticks of a queue of timeouts, in the order they were queued
TickColumns(q) ==
    IF q = <<>> THEN <<>>
    ELSE (IF Head(q).kind = "tick" THEN <<Head(q).col>> ELSE <<>>) \o TickColumns(Tail(q))

\* a handler that renders columns queues one tick for each, in their order, and no other
\* tick; a tick timeout that fires is the one queued first of those pending, and its
\* column reaches onTick only while the engine is Playing
TicksFollowRendering ==
    /\ out'.op \in {"start", "scheduler"} =>
           TickColumns(timeouts') =
               TickColumns(timeouts) \o [k \in DOMAIN out'.rendered |-> out'.rendered[k].col]
    /\ out'.op = "tick" =>
           /\ TickColumns(timeouts) # <<>>
           /\ TickColumns(timeouts') = Tail(TickColumns(timeouts))
           /\ out'.ticks = IF isPlaying THEN <<Head(TickColumns(timeouts))>> ELSE <<>>
    /\ out'.op \notin {"start", "scheduler", "tick"} =>
           /\ TickColumns(timeouts') = TickColumns(timeouts)
           /\ out'.ticks = <<>>

\* C27: each column rendered queues one tick that carries its index, the ticks of a
\* playback are delivered in the order their columns were rendered, and a tick is
\* delivered only while the engine is Playing
C27_CursorTicks == [][TicksFollowRendering]_vars

\* the tick of an empty column has been delivered after the ticks of the columns before
\* it, while the tick of a column rendered after it is pending
C27_Witness ==
    /\ run # NoRun
    /\ isPlaying
    /\ out.op = "tick"
    /\ out.ticks = <<1>>
    /\ Len(columns) = 3
    /\ \A s \in Strings : Cell(columns, 1, s) = Empty
    /\ run.start = 0
    /\ TickColumns(timeouts) # <<>>
    /\ Head(TickColumns(timeouts)) = 2

\* the strings of a column whose cell is not empty
UsedStrings(col) == {x \in DOMAIN col : col[x] # Empty}

\* C28: a column optimizeFingering has rewritten has one cell for each string of the
\* instrument, of which one is not empty, and the columns that hold a single fretted
\* note are the same columns in what it returns and in its argument
C28_RewriteShape ==
    Returned =>
        /\ \A k \in RewrittenCols(result.argument) :
               /\ Len(result.columns[k]) = INSTRUMENTS[instrumentType].stringCount
               /\ Cardinality(UsedStrings(result.columns[k])) = 1
        /\ EligibleCols(result.columns) = EligibleCols(result.argument)

\* a column that held a muted string beside its note has been rewritten, the note moved
\* to another string
C28_Witness ==
    /\ Returned
    /\ passes = 1
    /\ \E k \in RewrittenCols(result.argument) :
           /\ \E x \in DOMAIN result.argument[k] : result.argument[k][x] = Muted
           /\ Cardinality(UsedStrings(result.columns[k])) = 1
           /\ FrettedStrings(result.columns[k]) # FrettedStrings(result.argument[k])

\* C29: a column is rendered only for a time before now + scheduleAheadTime, and a
\* scheduling tick leaves nextNoteTime at or after now + scheduleAheadTime unless it has
\* stopped the engine
C29_LookaheadBound ==
    (out.op = "scheduler" \/ (out.op = "start" /\ out.call # <<>>)) =>
        /\ \A k \in DOMAIN out.rendered : out.rendered[k].time < now + scheduleAheadTime
        /\ nextNoteTime >= now + scheduleAheadTime \/ (out.stops > 0 /\ ~isPlaying)

\* a timer of the scheduler has rendered one column for the last time within the horizon
\* and has left nextNoteTime at its end
C29_Witness ==
    /\ out.op = "scheduler"
    /\ isPlaying
    /\ now > 0
    /\ Len(out.rendered) = 1
    /\ out.rendered[1].time = now + scheduleAheadTime - 1
    /\ nextNoteTime = now + scheduleAheadTime

\* C30: a playback of a score with a non-empty cell comes to the state Stopped, with the
\* stop notification fired
C30_AutoStops ==
    (isPlaying /\ lastNoteIndex # -1) ~> (~isPlaying /\ out.stops = 1)

\* the scores C30 holds of: the last column is empty
C30_StopsBeforeEmptyEnd ==
    (isPlaying /\ lastNoteIndex # -1 /\ lastNoteIndex < Len(columns) - 1)
        ~> (~isPlaying /\ out.stops = 1)

\* the columns a playback has rendered before the k-th column of the last handler
RenderedBefore(k) ==
    {(run.start + j) % Len(columns) : j \in 0 .. (RenderIndex(k) - 1)}

\* the columns of the chain that starts at the cell (h, s)
ChainOf(h, s) == {ChainColumns(h, s, <<>>)[i] : i \in DOMAIN ChainColumns(h, s, <<>>)}

\* C31: when a column is rendered and a playable cell of it is passed over as the target
\* of a link, the playback has rendered before it the column of a note that was
\* triggered and whose chain holds the column of the cell
C31_TargetSustained ==
    run # NoRun =>
        \A k \in DOMAIN out.rendered, s \in Strings :
            (/\ Playable(out.rendered[k].col, s)
             /\ HasFrequency(s)
             /\ isChainTarget(out.rendered[k].col, s)) =>
                \E h \in RenderedBefore(k) :
                    /\ Playable(h, s)
                    /\ ~isChainTarget(h, s)
                    /\ out.rendered[k].col \in ChainOf(h, s)

\* C32 as claimed: every column a handler renders, and with it every column a tick
\* carries, is a column of the score the engine holds when the handler runs
C32_RenderedIndexValid ==
    \A k \in DOMAIN out.rendered : out.rendered[k].col \in 0 .. (Len(columns) - 1)

\* the score the engine holds has a cell that is not empty
HasNote == \E c \in DOMAIN columns : \E x \in DOMAIN columns[c] : columns[c][x] # Empty

\* C32 as amended: when the score the engine holds has a non-empty cell every column a
\* handler renders is a column of it; when it has none a handler may render a column the
\* score does not have, for which no note is triggered
C32_RenderedIndexValidWithNotes ==
    /\ HasNote => \A k \in DOMAIN out.rendered :
                      out.rendered[k].col \in 0 .. (Len(columns) - 1)
    /\ \A n \in out.notes : n.col \in 0 .. (Len(columns) - 1)

\* a score with a note has replaced a longer one while the engine was past its end, and
\* the scheduler has stopped the engine without rendering a column
C32_Witness ==
    /\ dirty
    /\ HasNote
    /\ out.op = "scheduler"
    /\ out.wasPlaying
    /\ currentColumn >= Len(columns)
    /\ out.rendered = <<>>
    /\ out.stops = 1

\* a step of a start() that found the engine Playing
IgnoredStart == isPlaying /\ out'.op = "start" /\ out'.wasPlaying /\ out'.call = <<>>

\* such a step leaves the engine as it was: it is Playing at the same column and time, the
\* same timeouts are pending, no continuation of start() is added, and nothing is rendered
StartWhilePlayingIsNoOp ==
    IgnoredStart =>
        /\ UNCHANGED <<isPlaying, currentColumn, nextNoteTime, timerID, timeouts>>
        /\ UNCHANGED <<pendingStarts, score>>
        /\ out'.rendered = <<>> /\ out'.notes = {} /\ out'.ticks = <<>> /\ out'.stops = 0

\* C33: a start() that finds the engine Playing changes neither currentColumn nor
\* nextNoteTime nor the pending timer of the scheduler nor the queued ticks, and renders
\* no column, then or later on its account
C33_StartWhilePlayingIgnored == [][StartWhilePlayingIsNoOp]_vars

\* a start() has returned at once with the engine Playing, a timer of the scheduler and a
\* tick pending, and no continuation of a start() waiting
C33_Witness ==
    /\ out.op = "start"
    /\ out.wasPlaying
    /\ out.call = <<>>
    /\ isPlaying
    /\ pendingStarts = <<>>
    /\ timerID # 0
    /\ \E k \in DOMAIN timeouts : timeouts[k].kind = "tick"

\* the continuation of start(i) has run with i clamped to a column after the last note
StartedPastMusic ==
    /\ out.op = "start"
    /\ out.call # <<>>
    /\ lastNoteIndex >= 0
    /\ ClampedStart(out.call[1], Len(columns)) > lastNoteIndex

\* C34: when start(i) takes effect with i clamped to a column after the last note of a
\* score that has one, its run of the scheduler leaves the engine Stopped, fires the stop
\* notification once, renders no column, triggers no note, and leaves neither a tick nor a
\* timer of the scheduler pending
C34_StartPastMusicStops ==
    StartedPastMusic =>
        /\ ~isPlaying
        /\ out.stops = 1
        /\ out.rendered = <<>>
        /\ out.notes = {}
        /\ timeouts = <<>>
        /\ timerID = 0

\* start(i) with i beyond the last column of a score of three columns whose only note is
\* in the first has stopped at the last column
C34_Witness ==
    /\ StartedPastMusic
    /\ Len(columns) = 3
    /\ lastNoteIndex = 0
    /\ out.call[1] > Len(columns) - 1
    /\ currentColumn = 2
    /\ ~isPlaying
    /\ out.stops = 1

\* the marker m of the last setScore call is linked to column t by the columns of that
\* call: t is the first column after m's whose cell on m's string is not empty
DerivedLink(m, t) ==
    /\ m \in snapshot.connections
    /\ m[1] \in 0 .. (Len(snapshot.columns) - 1)
    /\ t \in (m[1] + 1) .. (Len(snapshot.columns) - 1)
    /\ Cell(snapshot.columns, t, m[2]) # Empty
    /\ \A i \in (m[1] + 1) .. (t - 1) : Cell(snapshot.columns, i, m[2]) = Empty

\* C35: the links and the targets the engine holds are those of the markers and columns
\* of the last setScore call and no other, none when that call had no marker, and a cell
\* that is no target of that call is not passed over
C35_LinksRebuilt ==
    /\ \A m \in DOMAIN connectionMap : DerivedLink(m, connectionMap[m])
    /\ \A m \in snapshot.connections, t \in 0 .. (Len(snapshot.columns) - 1) :
           DerivedLink(m, t) => (m \in DOMAIN connectionMap /\ connectionMap[m] = t)
    /\ \A c \in 0 .. MaxCols, x \in Strings :
           <<c, x>> \in connectionTargets <=>
               \E m \in snapshot.connections : m[2] = x /\ DerivedLink(m, c)
    /\ snapshot.connections = {} =>
           /\ DOMAIN connectionMap = {}
           /\ connectionTargets = {}
           /\ \A k \in DOMAIN out.rendered, x \in Strings :
                  (Playable(out.rendered[k].col, x) /\ HasFrequency(x)) =>
                      \E n \in out.notes : n.col = out.rendered[k].col /\ n.str = x

\* during a playback the score has been replaced by one of two notes on a string and no
\* marker, and the second note, a target when a marker ties the two, has been triggered
C35_Witness ==
    /\ dirty
    /\ snapshot.connections = {}
    /\ Len(columns) = 3
    /\ Cell(columns, 0, 0) = 3 /\ Cell(columns, 1, 0) = 3
    /\ connectionTargets = {}
    /\ out.op = "scheduler"
    /\ \E n \in out.notes : n.col = 1 /\ n.str = 0

RECURSIVE SumOfDurations(_)
\* the nominal durations of a sequence of columns, added up
SumOfDurations(path) ==
    IF path = <<>> THEN 0
    ELSE getDurationInSeconds(DurationAt(Head(path))) + SumOfDurations(Tail(path))

\* the walk from the cell (c, x) ends, having visited columns that increase, no more of
\* them than the score has, and returns the sum of their durations, which is no less
\* than the duration of column c
WalkBounded(c, x) ==
    \A path \in {ChainColumns(c, x, <<>>)} :
        /\ path # <<>> /\ path[1] = c
        /\ \A k \in 1 .. (Len(path) - 1) : path[k] < path[k + 1]
        /\ Len(path) <= Len(columns)
        /\ getChainDurationSeconds(c, x) = SumOfDurations(path)
        /\ getChainDurationSeconds(c, x) >= getDurationInSeconds(DurationAt(c))

\* C36: from every cell of the score the walk of the tie chain ends after visiting columns
\* that strictly increase, at most as many as the score has, and returns at least the
\* nominal duration of the column it starts at; the duration of a note that is triggered
\* is the one the walk returns
C36_ChainWalkTerminates ==
    /\ \A c \in 0 .. (Len(columns) - 1), x \in Strings : WalkBounded(c, x)
    /\ \A n \in out.notes :
           /\ n.dur = SumOfDurations(ChainColumns(n.col, n.str, <<>>))
           /\ n.dur >= getDurationInSeconds(DurationAt(n.col))

\* the walk from the first of three tied notes has visited the three columns of the
\* score, and the note has been triggered with the sum of their durations
C36_Witness ==
    /\ Len(columns) = 3
    /\ ChainColumns(0, 0, <<>>) = <<0, 1, 2>>
    /\ durations = <<"4", "8", "4">>
    /\ \E n \in out.notes :
           /\ n.col = 0 /\ n.str = 0
           /\ n.dur = SumOfDurations(<<0, 1, 2>>)
           /\ n.dur > getDurationInSeconds(DurationAt(0))

====
